---- MODULE Spec2Model ----
(***************************************************************************)
(* Component engine of openmdao/core/component.py: the explicit and        *)
(* implicit variants of apply_nonlinear / solve_nonlinear / apply_linear / *)
(* solve_linear / linearize, over the Vector and Jacobian collaborators.   *)
(*                                                                         *)
(* Vectors hold floating-point values.  A value is modelled as an integer  *)
(* kept to MantBits significant bits (round to nearest, ties to even), the *)
(* way a float64 keeps 53: every result below 2^MantBits is exact, larger  *)
(* results are rounded.                                                    *)
(***************************************************************************)
EXTENDS Integers, Sequences, FiniteSets, TLC

\* ------------------------------------------------------------------ bounds
MantBits == 8
MaxSmall == 1
MaxD == 1
MaxK == 1
MaxLinearize == 2
MaxSolves == 2
MaxDecl == 3
MaxNsub == 3
MaxProcs == 3

\* expected_nnz of TestJacobianFeatures.test_dependence
ExpectedNnz == 33

\* ------------------------------------------------------------------- state
\* Explicit component, nonlinear operations.
VARIABLES
    inputs,        \* self._inputs
    outputs,       \* self._outputs
    residuals,     \* self._residuals
    compute_kind,  \* which compute callback the component class defines
    nl_hist        \* history: the last call, its pre-call outputs, what compute wrote

nlVars == <<inputs, outputs, residuals, compute_kind, nl_hist>>

\* Explicit component, linear operations.
VARIABLES
    jac_fx,        \* the matrix the user's compute_jacvec_product multiplies by
    lin_top,       \* self._jacobian._top_name == self.path_name
    d_inputs,      \* d_inputs of each vec_name
    d_outputs,     \* d_outputs of each vec_name
    d_residuals,   \* d_residuals of each vec_name
    lin_pre,       \* history: the vectors of each vec_name as the solver loaded them
    applied,       \* history: the mode of the call that has acted on each vec_name
    cjp_saw        \* history: the d_outputs argument compute_jacvec_product was given in 'rev'

linVars == <<jac_fx, lin_top, d_inputs, d_outputs, d_residuals, lin_pre, applied, cjp_saw>>

\* Explicit component, _solve_linear.
VARIABLES
    ex_solvers_linear,  \* self._solvers_linear of the explicit component
    ex_solver_calls,    \* history: calls made to that sub-solver
    sl_hist,            \* history: the modes of the _solve_linear calls on each vec_name
    sl_pre,             \* history: d_outputs and d_residuals before the last call
    sl_orig             \* history: d_residuals before the first call

slVars == <<ex_solvers_linear, ex_solver_calls, sl_hist, sl_pre, sl_orig>>

\* Components sharing one Jacobian store, and their _linearize calls.
VARIABLES
    subjacs,       \* the store's blocks, keyed by <<output name, input name>>
    int_mtx,       \* the assembled matrix _update() derives from the blocks
    top_name,      \* self._jacobian._top_name
    jac_system,    \* self._jacobian._system
    simple_class,  \* the class of component 'simple' (which partials it declares)
    cj_kind,       \* which compute_jacobian 'simple' has at the moment
    impl_kind,     \* which linearize callback the implicit component defines
    lin_calls,     \* history: _linearize calls made per component
    n_update,      \* history: _update() calls made
    last_lin,      \* history: the component whose _linearize ran last
    last_wrote     \* history: the blocks the user's callback assigned in that call

jacVars == <<subjacs, int_mtx, top_name, jac_system, simple_class, cj_kind,
             impl_kind, lin_calls, n_update, last_lin, last_wrote>>

\* Implicit component: linear operations and solves.
VARIABLES
    im_top,             \* self._jacobian._top_name == self.path_name
    apply_linear_kind,  \* which apply_linear callback the component class defines
    im_jv,              \* what the Jacobian's block operator adds to the target vector
    im_uv,              \* what a user-written apply_linear leaves in the target vector
    im_target,          \* the vector the mode writes (d_residuals in 'fwd'), per vec_name
    solvers_nonlinear,  \* self._solvers_nonlinear
    solvers_linear,     \* self._solvers_linear
    im_last,            \* history: the last call, its arguments, callbacks and return value
    nl_rets             \* history: what _solve_nonlinear returned per sub-solver outcome

implVars == <<im_top, apply_linear_kind, im_jv, im_uv, im_target, solvers_nonlinear,
              solvers_linear, im_last, nl_rets>>

\* Variable registry of one component.
VARIABLES
    DEFAULTS,                   \* Component.DEFAULTS, the class-level dict
    variable_allprocs_names,    \* self._variable_allprocs_names[typ]
    variable_myproc_names,      \* self._variable_myproc_names[typ]
    variable_myproc_metadata,   \* self._variable_myproc_metadata[typ]
    decls                       \* history: the add_input / add_output calls made, per typ

regVars == <<DEFAULTS, variable_allprocs_names, variable_myproc_names,
             variable_myproc_metadata, decls>>

\* Processor allocator.
VARIABLES
    parallel,      \* self._parallel
    alloc_last     \* history: the last __call__, its arguments and what each process got

allocVars == <<parallel, alloc_last>>

vars == <<nlVars, linVars, slVars, jacVars, implVars, regVars, allocVars>>

\* What an operation of one part leaves alone: the state of the other parts.
notNL == <<linVars, slVars, jacVars, implVars, regVars, allocVars>>
notLin == <<nlVars, slVars, jacVars, implVars, regVars, allocVars>>
notSolveLin == <<nlVars, jacVars, implVars, regVars, allocVars>>
notJac == <<nlVars, linVars, slVars, implVars, regVars, allocVars>>
notImpl == <<nlVars, linVars, slVars, jacVars, regVars, allocVars>>
notReg == <<nlVars, linVars, slVars, jacVars, implVars, allocVars>>
notAlloc == <<nlVars, linVars, slVars, jacVars, implVars, regVars>>

\* --------------------------------------------------- floating-point values
Abs(n) == IF n < 0 THEN -n ELSE n

\* Every integer below FlLimit in magnitude is representable.
FlLimit == 2 ^ MantBits

\* The exponent of the unit in the last place of n: 0 while n fits MantBits bits.
RECURSIVE UlpExp(_, _)
UlpExp(n, e) == IF Abs(n) < FlLimit * (2 ^ e) THEN e ELSE UlpExp(n, e + 1)

\* n rounded to MantBits significant bits, ties to the even mantissa.
RoundFl(n) ==
    IF Abs(n) < FlLimit THEN n
    ELSE LET q   == 2 ^ UlpExp(n, 0)
             a   == Abs(n)
             lo  == (a \div q) * q
             rem == a - lo
             up  == IF 2 * rem > q THEN TRUE
                    ELSE IF 2 * rem < q THEN FALSE
                    ELSE ((lo \div q) % 2) = 1
             r   == IF up THEN lo + q ELSE lo
         IN  IF n < 0 THEN -r ELSE r

FlAdd(a, b) == RoundFl(a + b)
FlSub(a, b) == RoundFl(a - b)
FlMul(a, b) == RoundFl(a * b)

\* A value just above 2^MantBits: representable, but its distance to a small
\* value is not.
Big == FlLimit + 2

\* ------------------------------------------------------- Vector operations
\* residuals.set_vec(outputs), set_val(0.0), -=, +=, *= : elementwise.
VecSetVal(v, c) == [k \in DOMAIN v |-> c]
VecSub(a, b) == [k \in DOMAIN a |-> FlSub(a[k], b[k])]
VecAdd(a, b) == [k \in DOMAIN a |-> FlAdd(a[k], b[k])]
VecScale(a, c) == [k \in DOMAIN a |-> FlMul(a[k], c)]

\* ================================================= explicit, nonlinear part
InNames == {"x", "z"}
OutNames == {"f", "g"}
NLVals == (0 .. MaxSmall) \cup {Big}
ComputeKinds == {"pass", "simple"}

\* The user's compute callback, a deterministic function of the inputs that
\* writes into the outputs storage: the base class's (writes nothing) and one
\* in the manner of SimpleComp's (a sum and a product of the inputs).
compute(kind, inp, out) ==
    IF kind = "pass" THEN out
    ELSE [out EXCEPT !["f"] = FlAdd(inp["z"], inp["x"]),
                     !["g"] = FlMul(inp["z"], inp["x"])]

NLHist0 == [op |-> "none", pre |-> [k \in OutNames |-> 0],
            wrote |-> [k \in OutNames |-> 0], phase |-> "idle"]

NLInit ==
    /\ inputs \in [InNames -> NLVals]
    /\ outputs \in [OutNames -> NLVals]
    /\ residuals \in [OutNames -> NLVals]
    /\ compute_kind \in ComputeKinds
    /\ nl_hist = NLHist0

NLIdle ==
    /\ inputs = [k \in InNames |-> 0]
    /\ outputs = [k \in OutNames |-> 0]
    /\ residuals = [k \in OutNames |-> 0]
    /\ compute_kind = "pass"
    /\ nl_hist = NLHist0

\* ExplicitComponent._apply_nonlinear
Explicit_apply_nonlinear ==
    LET r1 == outputs                                      \* residuals.set_vec(outputs)
        o1 == compute(compute_kind, inputs, outputs)       \* self.compute(inputs, outputs)
        r2 == VecSub(r1, o1)                               \* residuals -= outputs
        o2 == VecAdd(o1, r2)                               \* outputs += residuals
    IN  /\ residuals' = r2
        /\ outputs' = o2
        /\ nl_hist' = [op |-> "apply", pre |-> outputs, wrote |-> o1,
                       phase |-> IF nl_hist.phase = "solved"
                                 THEN "solved_applied" ELSE "idle"]
        /\ UNCHANGED <<inputs, compute_kind, notNL>>

\* ExplicitComponent._solve_nonlinear without the call of compute.
Explicit_solve_nonlinear_NoCompute ==
    /\ residuals' = VecSetVal(residuals, 0)
    /\ nl_hist' = [NLHist0 EXCEPT !.op = "solve", !.phase = "solved"]
    /\ UNCHANGED <<inputs, outputs, compute_kind, notNL>>

\* ExplicitComponent._solve_nonlinear
Explicit_solve_nonlinear ==
    LET r1 == VecSetVal(residuals, 0)                      \* residuals.set_val(0.0)
        o1 == compute(compute_kind, inputs, outputs)       \* self.compute(inputs, outputs)
    IN  /\ residuals' = r1
        /\ outputs' = o1
        /\ nl_hist' = [NLHist0 EXCEPT !.op = "solve", !.phase = "solved"]
        /\ UNCHANGED <<inputs, compute_kind, notNL>>

\* The enclosing system transfers a new value into one input.
SetInput ==
    \E k \in InNames, v \in NLVals :
        /\ inputs[k] # v
        /\ inputs' = [inputs EXCEPT ![k] = v]
        /\ nl_hist' = NLHist0
        /\ UNCHANGED <<outputs, residuals, compute_kind, notNL>>

\* ==================================================== explicit, linear part
LinIn == {"x", "z"}
LinOut == {"f"}
VecNames == {"linear", "adjoint"}
DVals == 0 .. MaxD
\* df/dx of the user's compute: SimpleComp's df/dx = 1, df/dz = 1, and others.
JChoices == { [o \in LinOut |-> [i \in LinIn |-> 1]],
              [o \in LinOut |-> [i \in LinIn |-> IF i = "x" THEN -1 ELSE 2]],
              [o \in LinOut |-> [i \in LinIn |-> IF i = "x" THEN 0 ELSE -2]] }

RECURSIVE SetSum(_, _)
SetSum(S, f) == IF S = {} THEN 0
                ELSE LET k == CHOOSE k \in S : TRUE
                     IN  FlAdd(f[k], SetSum(S \ {k}, f))

\* Inner product of two vectors over the same names.
Dot(a, b) == SetSum(DOMAIN a, [k \in DOMAIN a |-> FlMul(a[k], b[k])])

\* The user's compute_jacvec_product: 'fwd' writes df/dx * d_inputs into its
\* d_outputs argument, 'rev' writes (df/dx)^T * d_outputs into d_inputs.
compute_jacvec_product_fwd(J, di) ==
    [o \in LinOut |-> SetSum(LinIn, [i \in LinIn |-> FlMul(J[o][i], di[i])])]
compute_jacvec_product_rev(J, dout) ==
    [i \in LinIn |-> SetSum(LinOut, [o \in LinOut |-> FlMul(J[o][i], dout[o])])]

\* self._jacobian._apply on the blocks _linearize leaves: -df/dx and the
\* identity self-block, accumulated into the target.
Jacobian_apply(J, di, dout, dr, mode) ==
    IF mode = "fwd"
    THEN [di |-> di, dout |-> dout,
          dr |-> VecAdd(dr, VecAdd(VecScale(compute_jacvec_product_fwd(J, di), -1), dout))]
    ELSE [di |-> VecAdd(di, VecScale(compute_jacvec_product_rev(J, dr), -1)),
          dout |-> VecAdd(dout, dr), dr |-> dr]

\* compute_jacvec_product has not been called on this vec_name.
NotCalled == [called |-> FALSE, arg |-> [o \in LinOut |-> 0]]

\* 'fwd' with the sign flip of the product left out.
Explicit_apply_linear_fwd_NoNegate(J, di, dout, dr) ==
    [di |-> di, dout |-> dout, dr |-> VecAdd(compute_jacvec_product_fwd(J, di), dout),
     saw |-> NotCalled]

\* ExplicitComponent._apply_linear, mode 'fwd', one vec_name
Explicit_apply_linear_fwd(J, di, dout, dr) ==
    LET r1 == compute_jacvec_product_fwd(J, di)   \* compute_jacvec_product(.., d_inputs, d_residuals, mode)
        r2 == VecScale(r1, -1)                    \* d_residuals *= -1.0
        r3 == VecAdd(r2, dout)                    \* d_residuals += d_outputs
    IN  [di |-> di, dout |-> dout, dr |-> r3, saw |-> NotCalled]

\* 'rev' with the negation before the callback left out.
Explicit_apply_linear_rev_NoNegate(J, di, dout, dr) ==
    [di |-> compute_jacvec_product_rev(J, dr), dout |-> dr, dr |-> dr,
     saw |-> [called |-> TRUE, arg |-> dr]]

\* 'rev' with the final d_outputs.set_vec(d_residuals) left out.
Explicit_apply_linear_rev_KeepOutputs(J, di, dout, dr) ==
    [di |-> compute_jacvec_product_rev(J, VecScale(dr, -1)), dout |-> dout, dr |-> dr,
     saw |-> [called |-> TRUE, arg |-> VecScale(dr, -1)]]

\* 'rev' with the second d_residuals *= -1.0 left out.
Explicit_apply_linear_rev_OneFlip(J, di, dout, dr) ==
    [di |-> compute_jacvec_product_rev(J, VecScale(dr, -1)),
     dout |-> VecScale(dr, -1), dr |-> VecScale(dr, -1),
     saw |-> [called |-> TRUE, arg |-> VecScale(dr, -1)]]

\* ExplicitComponent._apply_linear, mode 'rev', one vec_name
Explicit_apply_linear_rev(J, di, dout, dr) ==
    LET r1 == VecScale(dr, -1)                    \* d_residuals *= -1.0
        i1 == compute_jacvec_product_rev(J, r1)   \* compute_jacvec_product(.., d_inputs, d_residuals, mode)
        r2 == VecScale(r1, -1)                    \* d_residuals *= -1.0
        o1 == r2                                  \* d_outputs.set_vec(d_residuals)
    IN  [di |-> i1, dout |-> o1, dr |-> r2, saw |-> [called |-> TRUE, arg |-> r1]]

LinInit ==
    /\ jac_fx \in JChoices
    /\ lin_top \in BOOLEAN
    /\ d_inputs \in [VecNames -> [LinIn -> DVals]]
    /\ d_outputs \in [VecNames -> [LinOut -> DVals]]
    /\ d_residuals \in [VecNames -> [LinOut -> DVals]]
    /\ lin_pre = [v \in VecNames |->
                    [di |-> d_inputs[v], dout |-> d_outputs[v], dr |-> d_residuals[v]]]
    /\ applied = [v \in VecNames |-> "none"]
    /\ cjp_saw = [v \in VecNames |-> NotCalled]

LinIdle ==
    /\ jac_fx = [o \in LinOut |-> [i \in LinIn |-> 1]]
    /\ lin_top = FALSE
    /\ d_inputs = [v \in VecNames |-> [i \in LinIn |-> 0]]
    /\ d_outputs = [v \in VecNames |-> [o \in LinOut |-> 0]]
    /\ d_residuals = [v \in VecNames |-> [o \in LinOut |-> 0]]
    /\ lin_pre = [v \in VecNames |->
                    [di |-> d_inputs[v], dout |-> d_outputs[v], dr |-> d_residuals[v]]]
    /\ applied = [v \in VecNames |-> "none"]
    /\ cjp_saw = [v \in VecNames |-> NotCalled]

\* ExplicitComponent._apply_linear(vec_names, mode, var_ind_range): every
\* vec_name of the call is handled, each on its own vectors.  A right-hand
\* side is applied once after the solver has loaded it.
Explicit_apply_linear ==
    \E names \in (SUBSET VecNames) \ {{}}, mode \in {"fwd", "rev"} :
        /\ \A v \in names : applied[v] = "none"
        /\ LET new == [v \in names |->
                         IF lin_top
                         THEN Jacobian_apply(jac_fx, d_inputs[v], d_outputs[v],
                                             d_residuals[v], mode)
                              @@ [saw |-> NotCalled]
                         ELSE IF mode = "fwd"
                         THEN Explicit_apply_linear_fwd(jac_fx, d_inputs[v],
                                                        d_outputs[v], d_residuals[v])
                         ELSE Explicit_apply_linear_rev(jac_fx, d_inputs[v],
                                                        d_outputs[v], d_residuals[v])]
           IN  /\ d_inputs' = [v \in VecNames |->
                                 IF v \in names THEN new[v].di ELSE d_inputs[v]]
               /\ d_outputs' = [v \in VecNames |->
                                  IF v \in names THEN new[v].dout ELSE d_outputs[v]]
               /\ d_residuals' = [v \in VecNames |->
                                    IF v \in names THEN new[v].dr ELSE d_residuals[v]]
               /\ cjp_saw' = [v \in VecNames |->
                                IF v \in names THEN new[v].saw ELSE cjp_saw[v]]
        /\ applied' = [v \in VecNames |-> IF v \in names THEN mode ELSE applied[v]]
        /\ UNCHANGED <<jac_fx, lin_top, lin_pre, notLin>>

\* ------------------------------------------- explicit component, solve_linear
Modes == {"fwd", "rev"}

SolveLinIdle ==
    /\ ex_solvers_linear = "none"
    /\ ex_solver_calls = 0
    /\ sl_hist = [v \in VecNames |-> <<>>]
    /\ sl_pre = [v \in VecNames |-> [dout |-> d_outputs[v], dr |-> d_residuals[v]]]
    /\ sl_orig = d_residuals

\* The solver has loaded d_outputs and d_residuals; a linear sub-solver may be
\* attached to the component.
SolveLinInit ==
    /\ jac_fx = [o \in LinOut |-> [i \in LinIn |-> 1]]
    /\ lin_top = FALSE
    /\ d_inputs = [v \in VecNames |-> [i \in LinIn |-> 0]]
    /\ d_outputs \in [VecNames -> [LinOut -> DVals]]
    /\ d_residuals \in [VecNames -> [LinOut -> DVals]]
    /\ lin_pre = [v \in VecNames |->
                    [di |-> d_inputs[v], dout |-> d_outputs[v], dr |-> d_residuals[v]]]
    /\ applied = [v \in VecNames |-> "none"]
    /\ cjp_saw = [v \in VecNames |-> NotCalled]
    /\ ex_solvers_linear \in {"none", "solver"}
    /\ ex_solver_calls = 0
    /\ sl_hist = [v \in VecNames |-> <<>>]
    /\ sl_pre = [v \in VecNames |-> [dout |-> d_outputs[v], dr |-> d_residuals[v]]]
    /\ sl_orig = d_residuals

\* One vec_name of _solve_linear with both modes copying d_residuals.
Explicit_solve_linear_vec_FwdOnly(mode, dout, dr) == [dout |-> dr, dr |-> dr]

\* ExplicitComponent._solve_linear, one vec_name: setvec copies its argument
\* into the vector it is called on.
Explicit_solve_linear_vec(mode, dout, dr) ==
    IF mode = "fwd" THEN [dout |-> dr, dr |-> dr]        \* d_outputs.setvec(d_residuals)
    ELSE IF mode = "rev" THEN [dout |-> dout, dr |-> dout]  \* d_residuals.setvec(d_outputs)
    ELSE [dout |-> dout, dr |-> dr]

\* ExplicitComponent._solve_linear(vec_names, mode): self._solvers_linear is
\* not read.
Explicit_solve_linear ==
    \E names \in (SUBSET VecNames) \ {{}}, mode \in Modes :
        /\ \A v \in names : Len(sl_hist[v]) < MaxSolves
        /\ LET new == [v \in names |->
                         Explicit_solve_linear_vec(mode, d_outputs[v], d_residuals[v])]
           IN  /\ d_outputs' = [v \in VecNames |->
                                  IF v \in names THEN new[v].dout ELSE d_outputs[v]]
               /\ d_residuals' = [v \in VecNames |->
                                    IF v \in names THEN new[v].dr ELSE d_residuals[v]]
        /\ sl_pre' = [v \in VecNames |->
                        IF v \in names
                        THEN [dout |-> d_outputs[v], dr |-> d_residuals[v]]
                        ELSE sl_pre[v]]
        /\ sl_hist' = [v \in VecNames |->
                         IF v \in names THEN Append(sl_hist[v], mode) ELSE sl_hist[v]]
        /\ UNCHANGED <<jac_fx, lin_top, d_inputs, lin_pre, applied, cjp_saw,
                       ex_solvers_linear, ex_solver_calls, sl_orig, notSolveLin>>

SolveLinNext == Explicit_solve_linear

LinNext == Explicit_apply_linear

\* ======================================================= linearize, Jacobian
Comps == {"input_comp", "simple", "impl"}
ExplicitComps == {"input_comp", "simple"}
\* path_name of the root group: a top owner that is none of the components.
RootPath == "root"

\* _variable_myproc_names['output'] and ['input'] of each component.
OutputsOf(c) == CASE c = "input_comp" -> {"x", "y1", "y2", "z"}
                  [] c = "simple" -> {"f", "g"}
                  [] OTHER -> {"u"}
InputsOf(c) == CASE c = "input_comp" -> {}
                 [] c = "simple" -> {"x", "y1", "y2", "z"}
                 [] OTHER -> {"x"}
\* len(self._outputs[name]): the flat size of a variable.
SizeOf(n) == CASE n \in {"x", "f", "u"} -> 1
               [] n \in {"y1", "y2"} -> 2
               [] OTHER -> 4

\* A block: its stored entries, <<row, col>> |-> value.
Positions(nr, nc) == (0 .. nr - 1) \X (0 .. nc - 1)
Flat(seq, nr, nc) == [p \in Positions(nr, nc) |-> seq[p[1] * nc + p[2] + 1]]
Filled(nr, nc, v) == [p \in Positions(nr, nc) |-> v]
Triplets(rows, cols, v) == [p \in {<<rows[i], cols[i]>> : i \in DOMAIN rows} |-> v]
\* (ones, arange, arange)
Identity(size) == [p \in {<<i, i>> : i \in 0 .. size - 1} |-> 1]
NegBlock(b) == [p \in DOMAIN b |-> FlMul(b[p], -1)]
NoBlocks == [k \in {} |-> {}]
\* d overriding b
Over(b, d) == [k \in DOMAIN b \cup DOMAIN d |-> IF k \in DOMAIN d THEN d[k] ELSE b[k]]

SimpleClasses == {"SimpleComp", "SimpleCompDependence", "SimpleCompConst"}

\* declare_partials(.., dependent=False)
NonDependent(class) ==
    IF class = "SimpleComp" THEN {}
    ELSE {<<"f", "y1">>, <<"f", "y2">>, <<"g", "z">>}

\* declare_partials(.., val=..): the constant blocks and their values.
ConstantBlocks(class) ==
    IF class # "SimpleCompConst" THEN NoBlocks
    ELSE [k \in {<<"f", "x">>, <<"f", "z">>, <<"g", "y1">>, <<"g", "y2">>, <<"g", "x">>} |->
            CASE k = <<"f", "x">> -> Filled(1, 1, 1)
              [] k = <<"f", "z">> -> Filled(1, 4, 1)
              [] k = <<"g", "y1">> -> Flat(<<1, 0, 1, 0, 0, 1, 0, 1>>, 4, 2)
              [] k = <<"g", "y2">> -> Triplets(<<0, 3, 0, 3>>, <<0, 0, 1, 1>>, 1)
              [] OTHER -> Triplets(<<0, 3>>, <<0, 0>>, 1)]

\* The assignments the user's compute_jacobian makes, key |-> value: the base
\* class's and SimpleCompConst's make none, SimpleComp's five, and a rewritten
\* one ("mutated") assigns k to every pair and every self-block.
ComputeJacobianKinds == {"pass", "simple", "mutated"}
compute_jacobian(c, kind, k) ==
    IF c # "simple" \/ kind = "pass" THEN NoBlocks
    ELSE IF kind = "simple"
    THEN [key \in {<<"f", "x">>, <<"f", "z">>, <<"g", "y1">>, <<"g", "y2">>, <<"g", "x">>} |->
            CASE key = <<"f", "x">> -> Filled(1, 1, 1)
              [] key = <<"f", "z">> -> Filled(1, 4, 1)
              [] key = <<"g", "y1">> -> Flat(<<1, 1, 0, 0, 0, 0, 1, 1>>, 4, 2)
              [] key = <<"g", "y2">> -> Flat(<<1, 0, 1, 0, 0, 1, 0, 1>>, 4, 2)
              [] OTHER -> Flat(<<1, 0, 0, 1>>, 4, 1)]
    ELSE [key \in (OutputsOf(c) \X InputsOf(c)) \cup {<<op, op>> : op \in OutputsOf(c)} |->
            Filled(SizeOf(key[1]), SizeOf(key[2]), k)]

\* The implicit component's linearize callback: the base class's assigns
\* nothing, a user's assigns its two blocks.
LinearizeKinds == {"pass", "writes"}
linearize(kind, k) ==
    IF kind = "pass" THEN NoBlocks
    ELSE [key \in {<<"u", "u">>, <<"u", "x">>} |-> Filled(1, 1, k)]

\* jacobian[op, ip] = value for every assignment of `wrote`: a pair declared
\* not dependent gets no storage, a constant block keeps its declared value.
Jacobian_setitems(sj, class, wrote) ==
    LET ok == {key \in DOMAIN wrote :
                 key \notin NonDependent(class) /\ key \notin DOMAIN ConstantBlocks(class)}
    IN  Over(sj, [key \in ok |-> wrote[key]])

\* (op, ip) in jacobian
Jacobian_contains(sj, key) == key \in DOMAIN sj

\* jacobian._negate(op, ip)
Jacobian_negate(sj, key) ==
    IF key \in DOMAIN sj THEN [sj EXCEPT ![key] = NegBlock(sj[key])] ELSE sj

\* jacobian._update(): the assembled matrix holds every stored entry.
Jacobian_update(sj) ==
    [e \in UNION {{<<key, p>> : p \in DOMAIN sj[key]} : key \in DOMAIN sj} |-> sj[e[1]][e[2]]]

\* self._jacobian._top_name == self.path_name
IsTopOwner_Always(c) == TRUE
IsTopOwner(c) == top_name = c

\* The declarations that govern a component's pairs.
ClassOf(c) == IF c = "simple" THEN simple_class ELSE "SimpleComp"

\* The negation pass run over every (op, ip) pair, present or not.
Explicit_linearize_negate_All(c, sj) ==
    [key \in DOMAIN sj \cup (OutputsOf(c) \X InputsOf(c)) |->
        IF key \in OutputsOf(c) \X InputsOf(c)
        THEN IF key \in DOMAIN sj THEN NegBlock(sj[key])
             ELSE Filled(SizeOf(key[1]), SizeOf(key[2]), 0)
        ELSE sj[key]]

\* ExplicitComponent._linearize, the negation pass: every (op, ip) that is in
\* the Jacobian is negated.
Explicit_linearize_negate(c, sj) ==
    [key \in DOMAIN sj |->
        IF key \in OutputsOf(c) \X InputsOf(c) /\ Jacobian_contains(sj, key)
        THEN Jacobian_negate(sj, key)[key]
        ELSE sj[key]]

\* The blocks with the negation pass left out.
Explicit_linearize_blocks_NoNegate(c, sj, wrote) ==
    Jacobian_setitems(Jacobian_setitems(sj, ClassOf(c), wrote), ClassOf(c),
                      [key \in {<<op, op>> : op \in OutputsOf(c)} |-> Identity(SizeOf(key[1]))])

\* ExplicitComponent._linearize up to the ownership test: the blocks it leaves.
Explicit_linearize_blocks(c, sj, wrote) ==
    LET s1 == Jacobian_setitems(sj, ClassOf(c), wrote)    \* self.compute_jacobian(..)
        s2 == Jacobian_setitems(s1, ClassOf(c),           \* jacobian[op, op] = (ones, arange, arange)
                [key \in {<<op, op>> : op \in OutputsOf(c)} |-> Identity(SizeOf(key[1]))])
    IN  Explicit_linearize_negate(c, s2)                  \* jacobian._negate(op, ip)

JacInit ==
    /\ simple_class \in SimpleClasses
    /\ subjacs = ConstantBlocks(simple_class)
    /\ int_mtx = Jacobian_update(NoBlocks)
    /\ top_name \in Comps \cup {RootPath}
    /\ jac_system = "none"
    /\ cj_kind = IF simple_class = "SimpleCompConst" THEN "pass" ELSE "simple"
    /\ impl_kind \in LinearizeKinds
    /\ lin_calls = [c \in Comps |-> 0]
    /\ n_update = 0
    /\ last_lin = "none"
    /\ last_wrote = NoBlocks

JacIdle ==
    /\ simple_class = "SimpleComp"
    /\ subjacs = NoBlocks
    /\ int_mtx = Jacobian_update(NoBlocks)
    /\ top_name = RootPath
    /\ jac_system = "none"
    /\ cj_kind = "simple"
    /\ impl_kind = "pass"
    /\ lin_calls = [c \in Comps |-> 0]
    /\ n_update = 0
    /\ last_lin = "none"
    /\ last_wrote = NoBlocks

\* ExplicitComponent._linearize
Explicit_linearize ==
    \E c \in ExplicitComps, k \in 1 .. MaxK :
        /\ lin_calls[c] < MaxLinearize
        /\ LET wrote == compute_jacobian(c, cj_kind, k)
               sj    == Explicit_linearize_blocks(c, subjacs, wrote)
           IN  /\ subjacs' = sj
               /\ last_wrote' = wrote
               /\ IF IsTopOwner(c)                        \* if _top_name == path_name:
                  THEN /\ int_mtx' = Jacobian_update(sj)  \*     self._jacobian._update()
                       /\ n_update' = n_update + 1
                  ELSE UNCHANGED <<int_mtx, n_update>>
        /\ lin_calls' = [lin_calls EXCEPT ![c] = @ + 1]
        /\ last_lin' = c
        /\ UNCHANGED <<top_name, jac_system, simple_class, cj_kind, impl_kind, notJac>>

\* ImplicitComponent._linearize
Implicit_linearize ==
    \E k \in 1 .. MaxK :
        /\ lin_calls["impl"] < MaxLinearize
        /\ jac_system' = "impl"                           \* self._jacobian._system = self
        /\ LET wrote == linearize(impl_kind, k)           \* self.linearize(.., self._jacobian)
               sj    == Jacobian_setitems(subjacs, "SimpleComp", wrote)
           IN  /\ subjacs' = sj
               /\ last_wrote' = wrote
               /\ IF IsTopOwner("impl")
                  THEN /\ int_mtx' = Jacobian_update(sj)
                       /\ n_update' = n_update + 1
                  ELSE UNCHANGED <<int_mtx, n_update>>
        /\ lin_calls' = [lin_calls EXCEPT !["impl"] = @ + 1]
        /\ last_lin' = "impl"
        /\ UNCHANGED <<top_name, simple_class, cj_kind, impl_kind, notJac>>

\* The user replaces compute_jacobian of 'simple' between two calls, or puts
\* the class's own back.
MutateComputeJacobian ==
    \E kind \in {"mutated", IF simple_class = "SimpleCompConst" THEN "pass" ELSE "simple"} :
        /\ kind # cj_kind
        /\ cj_kind' = kind
        /\ UNCHANGED <<subjacs, int_mtx, top_name, jac_system, simple_class, impl_kind,
                       lin_calls, n_update, last_lin, last_wrote, notJac>>

JacNext ==
    \/ Explicit_linearize
    \/ Implicit_linearize
    \/ MutateComputeJacobian

\* ======================================================== implicit component
\* vec_names: a list of right-hand-side names.
VecNameLists == {<<>>} \cup {<<v>> : v \in VecNames}
                    \cup {<<v, w>> : v, w \in VecNames}
Names(list) == {list[i] : i \in DOMAIN list}
\* What a Python callback may return where a success flag is expected.
Returns == {"True", "False", "None"}
Truthy(r) == r = "True"

ImLast0 == [op |-> "none", vec_names |-> <<>>, applied |-> [v \in VecNames |-> <<>>],
            pre |-> [v \in VecNames |-> 0], outcomes |-> <<>>, calls |-> <<>>,
            invoked |-> "none", solver_ret |-> "None", ret |-> "None"]

\* The apply_linear calls: every callback, ownership and right-hand side.
ImplApplyInit ==
    /\ im_top \in BOOLEAN
    /\ apply_linear_kind \in {"default", "user"}
    /\ im_jv \in 1 .. MaxD
    /\ im_uv \in DVals
    /\ im_target \in [VecNames -> DVals]
    /\ solvers_nonlinear = "none"
    /\ solvers_linear = "none"
    /\ im_last = ImLast0
    /\ nl_rets = [conv \in BOOLEAN |-> "unset"]

\* The solves: with and without attached sub-solvers.
ImplSolveInit ==
    /\ im_top \in BOOLEAN
    /\ apply_linear_kind = "default"
    /\ im_jv = 1
    /\ im_uv = 0
    /\ im_target = [v \in VecNames |-> 0]
    /\ solvers_nonlinear \in {"none", "attached"}
    /\ solvers_linear \in {"none", "attached"}
    /\ im_last = ImLast0
    /\ nl_rets = [conv \in BOOLEAN |-> "unset"]

ImplIdle ==
    /\ im_top = FALSE
    /\ apply_linear_kind = "default"
    /\ im_jv = 1
    /\ im_uv = 0
    /\ im_target = [v \in VecNames |-> 0]
    /\ solvers_nonlinear = "none"
    /\ solvers_linear = "none"
    /\ im_last = ImLast0
    /\ nl_rets = [conv \in BOOLEAN |-> "unset"]

\* self._jacobian._apply(d_inputs, d_outputs, d_residuals, mode) on one
\* right-hand side: the block operator's product is accumulated.
Implicit_jacobian_apply(st) ==
    [t |-> FlAdd(st.t, im_jv), log |-> Append(st.log, "jacobian")]

\* self.apply_linear(..): the base class's applies the Jacobian, a user's
\* writes its own product.
apply_linear(st) ==
    IF apply_linear_kind = "default" THEN Implicit_jacobian_apply(st)
    ELSE [t |-> im_uv, log |-> Append(st.log, "user")]

\* ImplicitComponent._apply_linear, one pass of the loop body
Implicit_apply_linear_vec(st) ==
    Implicit_jacobian_apply(apply_linear(st))

\* The loop over vec_names from position i on.
RECURSIVE Implicit_apply_linear_loop(_, _, _)
Implicit_apply_linear_loop(names, i, sts) ==
    IF i > Len(names) THEN sts
    ELSE Implicit_apply_linear_loop(names, i + 1,
            [sts EXCEPT ![names[i]] = Implicit_apply_linear_vec(sts[names[i]])])

\* ImplicitComponent._apply_linear(vec_names, mode, var_ind_range).  The
\* solver has loaded every right-hand side of the call.
Implicit_apply_linear ==
    \E names \in VecNameLists :
        /\ \A v \in Names(names) : im_target[v] \in DVals
        /\ LET sts == Implicit_apply_linear_loop(names, 1,
                         [v \in VecNames |-> [t |-> im_target[v], log |-> <<>>]])
           IN  /\ im_target' = [v \in VecNames |-> sts[v].t]
               /\ im_last' = [ImLast0 EXCEPT !.op = "apply_linear", !.vec_names = names,
                                             !.applied = [v \in VecNames |-> sts[v].log],
                                             !.pre = im_target]
        /\ UNCHANGED <<im_top, apply_linear_kind, im_jv, im_uv, solvers_nonlinear,
                       solvers_linear, nl_rets, notImpl>>

\* The linear solver loads a right-hand side.
LoadRhs ==
    \E v \in VecNames, val \in DVals :
        /\ im_target[v] # val
        /\ im_target' = [im_target EXCEPT ![v] = val]
        /\ im_last' = ImLast0
        /\ UNCHANGED <<im_top, apply_linear_kind, im_jv, im_uv, solvers_nonlinear,
                       solvers_linear, nl_rets, notImpl>>

\* The loop that goes on after an unsuccessful solve and returns the last flag.
RECURSIVE Implicit_solve_linear_loop_NoStop(_, _, _, _)
Implicit_solve_linear_loop_NoStop(names, outs, i, calls) ==
    IF i > Len(names)
    THEN [calls |-> calls,
          ret |-> IF Len(names) = 0 \/ Truthy(outs[Len(names)]) THEN "True" ELSE "False"]
    ELSE Implicit_solve_linear_loop_NoStop(names, outs, i + 1, Append(calls, names[i]))

\* ImplicitComponent._solve_linear, the loop over vec_names from position i
\* on: outs[i] is what the user's solve_linear returns for the i-th one.
RECURSIVE Implicit_solve_linear_loop(_, _, _, _)
Implicit_solve_linear_loop(names, outs, i, calls) ==
    IF i > Len(names) THEN [calls |-> calls, ret |-> "True"]            \* return True
    ELSE IF ~Truthy(outs[i])                                           \* if not success:
    THEN [calls |-> Append(calls, names[i]), ret |-> "False"]           \*     return False
    ELSE Implicit_solve_linear_loop(names, outs, i + 1, Append(calls, names[i]))

\* ImplicitComponent._solve_linear(vec_names, mode): res is what the attached
\* sub-solver returns, outs what the user's solve_linear returns per position.
Implicit_solve_linear ==
    \E names \in VecNameLists :
        /\ IF solvers_linear # "none"                       \* if self._solvers_linear is not None:
           THEN \E res \in Returns :                        \*     return self._solvers_linear(..)
                  im_last' = [ImLast0 EXCEPT !.op = "solve_linear", !.vec_names = names,
                                             !.invoked = "solver", !.solver_ret = res,
                                             !.ret = res]
           ELSE \E outs \in [1 .. Len(names) -> Returns] :
                  LET r == Implicit_solve_linear_loop(names, outs, 1, <<>>)
                  IN  im_last' = [ImLast0 EXCEPT !.op = "solve_linear", !.vec_names = names,
                                                 !.outcomes = outs, !.invoked = "user",
                                                 !.calls = r.calls, !.ret = r.ret]
        /\ UNCHANGED <<im_top, apply_linear_kind, im_jv, im_uv, im_target,
                       solvers_nonlinear, solvers_linear, nl_rets, notImpl>>

\* ImplicitComponent._solve_nonlinear: the sub-solver, when attached, ends
\* converged or not; the method has no return statement.
Implicit_solve_nonlinear ==
    \E conv \in BOOLEAN :
        /\ IF solvers_nonlinear # "none"
           THEN /\ im_last' = [ImLast0 EXCEPT !.op = "solve_nonlinear",
                                              !.invoked = "solver", !.ret = "None"]
                /\ nl_rets' = [nl_rets EXCEPT ![conv] = "None"]
           ELSE /\ im_last' = [ImLast0 EXCEPT !.op = "solve_nonlinear",
                                              !.invoked = "user", !.ret = "None"]
                /\ UNCHANGED nl_rets
        /\ UNCHANGED <<im_top, apply_linear_kind, im_jv, im_uv, im_target,
                       solvers_nonlinear, solvers_linear, notImpl>>

ImplApplyNext ==
    \/ Implicit_apply_linear
    \/ LoadRhs

ImplSolveNext ==
    \/ Implicit_solve_linear
    \/ Implicit_solve_nonlinear

\* ======================================================== variable registry
Typs == {"input", "output"}
VarNames == {"x", "y"}

\* A Python list and the numpy array made of it hold the same elements and are
\* different objects of different types.
PyList(elems) == [kind |-> "list", elems |-> elems]
numpy_array(v) == [kind |-> "array", elems |-> v.elems]

\* Component.DEFAULTS as the class statement leaves it.
DefaultsValue ==
    [indices |-> PyList(<<0>>), shape |-> PyList(<<1>>), units |-> "", value |-> 1,
     scale |-> 1, lower |-> "None", upper |-> "None", var_set |-> 0]

\* The keyword arguments of a declaration.
KwargsChoices == { [k \in {} |-> 0],
                   [value |-> 2],
                   [indices |-> PyList(<<1>>), var_set |-> 1] }

\* dict.update
DictUpdate(d, kw) ==
    [k \in (DOMAIN d) \cup (DOMAIN kw) |-> IF k \in DOMAIN kw THEN kw[k] ELSE d[k]]

\* The metadata a declaration stores.
MetadataOf(typ, kw) ==
    LET m == DictUpdate(DefaultsValue, kw)
    IN  IF typ = "input" THEN [m EXCEPT !["indices"] = numpy_array(m["indices"])] ELSE m

\* _add_variable with metadata = self.DEFAULTS, the copy left out: update and
\* the indices assignment then write the class-level dict.
add_variable_NoCopy(reg, name, typ, kwargs) ==
    LET m1 == DictUpdate(reg.DEFAULTS, kwargs)
        m2 == IF typ = "input"
              THEN [m1 EXCEPT !["indices"] = numpy_array(m1["indices"])]
              ELSE m1
    IN  [DEFAULTS |-> m2,
         allprocs_names |-> [reg.allprocs_names EXCEPT ![typ] = Append(@, name)],
         myproc_names |-> [reg.myproc_names EXCEPT ![typ] = Append(@, name)],
         myproc_metadata |-> [reg.myproc_metadata EXCEPT ![typ] = Append(@, m2)]]

\* Component._add_variable(name, typ, kwargs)
add_variable(reg, name, typ, kwargs) ==
    LET m0 == reg.DEFAULTS                        \* metadata = self.DEFAULTS.copy()
        m1 == DictUpdate(m0, kwargs)              \* metadata.update(kwargs)
        m2 == IF typ = "input"                    \* metadata['indices'] = numpy.array(..)
              THEN [m1 EXCEPT !["indices"] = numpy_array(m1["indices"])]
              ELSE m1
    IN  [DEFAULTS |-> reg.DEFAULTS,
         allprocs_names |-> [reg.allprocs_names EXCEPT ![typ] = Append(@, name)],
         myproc_names |-> [reg.myproc_names EXCEPT ![typ] = Append(@, name)],
         myproc_metadata |-> [reg.myproc_metadata EXCEPT ![typ] = Append(@, m2)]]

Registry == [DEFAULTS |-> DEFAULTS,
             allprocs_names |-> variable_allprocs_names,
             myproc_names |-> variable_myproc_names,
             myproc_metadata |-> variable_myproc_metadata]

NDecls == Len(decls["input"]) + Len(decls["output"])

RegInit ==
    /\ DEFAULTS = DefaultsValue
    /\ variable_allprocs_names = [t \in Typs |-> <<>>]
    /\ variable_myproc_names = [t \in Typs |-> <<>>]
    /\ variable_myproc_metadata = [t \in Typs |-> <<>>]
    /\ decls = [t \in Typs |-> <<>>]

RegIdle == RegInit

\* The registry after _add_variable(name, typ, kwargs).
Declare(name, typ, kwargs) ==
    LET new == add_variable(Registry, name, typ, kwargs)
    IN  /\ DEFAULTS' = new.DEFAULTS
        /\ variable_allprocs_names' = new.allprocs_names
        /\ variable_myproc_names' = new.myproc_names
        /\ variable_myproc_metadata' = new.myproc_metadata
        /\ decls' = [decls EXCEPT ![typ] = Append(@, [name |-> name, kwargs |-> kwargs])]

\* Component.add_input(name, **kwargs)
add_input ==
    \E name \in VarNames, kwargs \in KwargsChoices :
        /\ NDecls < MaxDecl
        /\ Declare(name, "input", kwargs)
        /\ UNCHANGED notReg

\* Component.add_output(name, **kwargs)
add_output ==
    \E name \in VarNames, kwargs \in KwargsChoices :
        /\ NDecls < MaxDecl
        /\ Declare(name, "output", kwargs)
        /\ UNCHANGED notReg

RegNext == add_input \/ add_output

\* ====================================================== processor allocator
\* A communicator: an opaque handle with a size.
Comms == [id : {"comm"}, size : 1 .. MaxProcs]
ProcRanges == {<<lo, hi>> : lo \in 0 .. 1, hi \in 0 .. (1 + MaxProcs)}

\* range(nsub) as a list
RangeList(nsub) == [i \in 1 .. nsub |-> i - 1]

\* ProcAllocator._divide_procs: the body is pass, the call returns None.
divide_procs(nsub, comm, proc_range) == [ret |-> "None", divide_calls |-> 1]

\* __call__ taking the serial branch only when both conditions hold.
ProcAllocator_call_And(par, nsub, comm, proc_range) ==
    IF ~par /\ comm.size = 1
    THEN [ret |-> "triple", isubs |-> RangeList(nsub), sub_comm |-> comm,
          sub_proc_range |-> <<proc_range[1], proc_range[2]>>, divide_calls |-> 0]
    ELSE divide_procs(nsub, comm, proc_range)

\* ProcAllocator.__call__(nsub, comm, proc_range)
ProcAllocator_call(par, nsub, comm, proc_range) ==
    IF ~par \/ comm.size = 1
    THEN [ret |-> "triple", isubs |-> RangeList(nsub), sub_comm |-> comm,
          sub_proc_range |-> <<proc_range[1], proc_range[2]>>, divide_calls |-> 0]
    ELSE divide_procs(nsub, comm, proc_range)

NoCall == [called |-> FALSE]

AllocInit ==
    /\ parallel \in BOOLEAN
    /\ alloc_last = NoCall

AllocIdle ==
    /\ parallel = FALSE
    /\ alloc_last = NoCall

\* Every process of the communicator calls the allocator with the same
\* arguments, as the owning system's setup does.
Allocate ==
    \E nsub \in 0 .. MaxNsub, comm \in Comms, proc_range \in ProcRanges :
        /\ alloc_last' = [called |-> TRUE, nsub |-> nsub, comm |-> comm,
                          proc_range |-> proc_range,
                          results |-> [rank \in 0 .. (comm.size - 1) |->
                                         ProcAllocator_call(parallel, nsub, comm, proc_range)]]
        /\ UNCHANGED <<parallel, notAlloc>>

AllocNext == Allocate

\* ========================================================= specifications
NLNext ==
    \/ Explicit_apply_nonlinear
    \/ Explicit_solve_nonlinear
    \/ SetInput

\* The parts the first five specifications leave idle.
RestIdle == SolveLinIdle /\ RegIdle /\ AllocIdle

InitNL == NLInit /\ LinIdle /\ JacIdle /\ ImplIdle /\ RestIdle
InitLin == LinInit /\ NLIdle /\ JacIdle /\ ImplIdle /\ RestIdle
InitJac == JacInit /\ NLIdle /\ LinIdle /\ ImplIdle /\ RestIdle
InitImplApply == ImplApplyInit /\ NLIdle /\ LinIdle /\ JacIdle /\ RestIdle
InitImplSolve == ImplSolveInit /\ NLIdle /\ LinIdle /\ JacIdle /\ RestIdle
InitSolveLin == SolveLinInit /\ NLIdle /\ JacIdle /\ ImplIdle /\ RegIdle /\ AllocIdle
InitReg == RegInit /\ NLIdle /\ LinIdle /\ SolveLinIdle /\ JacIdle /\ ImplIdle /\ AllocIdle
InitAlloc == AllocInit /\ NLIdle /\ LinIdle /\ SolveLinIdle /\ JacIdle /\ ImplIdle /\ RegIdle

SpecNL == InitNL /\ [][NLNext]_vars
SpecLin == InitLin /\ [][LinNext]_vars
SpecJac == InitJac /\ [][JacNext]_vars
SpecImplApply == InitImplApply /\ [][ImplApplyNext]_vars
SpecImplSolve == InitImplSolve /\ [][ImplSolveNext]_vars
SpecSolveLin == InitSolveLin /\ [][SolveLinNext]_vars
SpecReg == InitReg /\ [][RegNext]_vars
SpecAlloc == InitAlloc /\ [][AllocNext]_vars

\* ================================================================== claims
\* C1: one call of ExplicitComponent._apply_nonlinear ends with outputs equal
\* to their pre-call values and residuals equal to the pre-call outputs minus
\* the values compute wrote for the current inputs.
C1_ApplyRestoresOutputs ==
    nl_hist.op = "apply" =>
        /\ outputs = nl_hist.pre
        /\ residuals = VecSub(nl_hist.pre, nl_hist.wrote)

\* C2: _solve_nonlinear followed by _apply_nonlinear, the inputs unchanged in
\* between, leaves every residual entry zero.
C2_SolveThenApplyZero ==
    nl_hist.phase = "solved_applied" => \A k \in OutNames : residuals[k] = 0

\* A solve then an apply has run on a component whose compute moved the outputs
\* away from what they held before the solve.
C2_Witness ==
    /\ nl_hist.phase = "solved_applied"
    /\ compute_kind = "simple"
    /\ \E k \in OutNames : outputs[k] # 0

\* C3: on the matrix-free path forward and reverse mode are exact transposes:
\* the inner product of fwd(d_input, d_output) with d_residual equals the inner
\* product of (d_input, d_output) with the pair rev(d_residual) produces.
C3_FwdRevTranspose ==
    ~lin_top =>
        \A a, b \in VecNames :
            (applied[a] = "fwd" /\ applied[b] = "rev") =>
                Dot(d_residuals[a], lin_pre[b].dr)
                    = Dot(lin_pre[a].di, d_inputs[b]) + Dot(lin_pre[a].dout, d_outputs[b])

\* A forward call and a reverse call have acted on two right-hand sides, and
\* the Jacobian term of the inner product does not vanish.
C3_Witness ==
    /\ ~lin_top
    /\ \E a, b \in VecNames :
        /\ applied[a] = "fwd"
        /\ applied[b] = "rev"
        /\ Dot(lin_pre[a].di, d_inputs[b]) # 0
        /\ Dot(d_residuals[a], lin_pre[b].dr) # 0

\* C4: a Jacobian block declared constant holds identical values after any two
\* successive _linearize calls: once the component has been linearized, no
\* later step changes a constant block's value or sign.
C4_ConstantBlocksFrozen ==
    [][lin_calls["simple"] >= 1 =>
          \A key \in DOMAIN ConstantBlocks(simple_class) :
              /\ key \in DOMAIN subjacs'
              /\ subjacs'[key] = subjacs[key]]_vars

\* The component of the test model has been linearized, and so have all the
\* others, the owner last.
TestModelAssembled ==
    /\ simple_class = "SimpleCompConst"
    /\ <<"u", "u">> \notin DOMAIN subjacs
    /\ \A c \in ExplicitComps : lin_calls[c] >= 1
    /\ last_lin = top_name

\* C5: no block is ever stored or assembled for a pair declared
\* dependent=false; every self-block holds one entry per output element; and
\* the assembled Jacobian of the test model holds the 33 entries of the
\* declared dependent blocks and the diagonal.
C5_NonDependentNeverStored ==
    /\ \A key \in NonDependent(simple_class) :
          /\ key \notin DOMAIN subjacs
          /\ \A e \in DOMAIN int_mtx : e[1] # key
    /\ \A c \in ExplicitComps : \A op \in OutputsOf(c) :
          <<op, op>> \in DOMAIN subjacs => Cardinality(DOMAIN subjacs[<<op, op>>]) = SizeOf(op)
    /\ TestModelAssembled => Cardinality(DOMAIN int_mtx) = ExpectedNnz

\* The test model has been assembled by its owner after a rewritten
\* compute_jacobian assigned to the pairs declared not dependent.
C5_Witness ==
    /\ TestModelAssembled
    /\ n_update > 0
    /\ last_lin = "simple"
    /\ <<"g", "z">> \in DOMAIN last_wrote
    /\ NonDependent(simple_class) # {}

\* C6: after an explicit _linearize every self-block of the component is the
\* identity whatever compute_jacobian assigned there, every block
\* compute_jacobian assigned in that call holds the negated value, and after
\* the first call every populated (output, input) block holds the negation of
\* the value reported for it.
C6_IdentityAndNegation ==
    last_lin \in ExplicitComps =>
        LET c     == last_lin
            cross == OutputsOf(c) \X InputsOf(c)
            const == ConstantBlocks(ClassOf(c))
        IN  /\ \A op \in OutputsOf(c) :
                  /\ <<op, op>> \in DOMAIN subjacs
                  /\ subjacs[<<op, op>>] = Identity(SizeOf(op))
            /\ \A key \in DOMAIN last_wrote \cap cross :
                  (key \notin NonDependent(ClassOf(c)) /\ key \notin DOMAIN const)
                      => subjacs[key] = NegBlock(last_wrote[key])
            /\ lin_calls[c] = 1 =>
                  \A key \in DOMAIN subjacs \cap cross :
                      subjacs[key] = NegBlock(IF key \in DOMAIN const THEN const[key]
                                              ELSE last_wrote[key])

\* compute_jacobian assigned a self-block and a nonzero (output, input) block,
\* and _linearize has run on them.
C6_Witness ==
    /\ last_lin = "simple"
    /\ simple_class = "SimpleComp"
    /\ <<"g", "g">> \in DOMAIN last_wrote
    /\ <<"f", "x">> \in DOMAIN last_wrote
    /\ last_wrote[<<"f", "x">>][<<0, 0>>] > 0
    /\ subjacs[<<"f", "x">>][<<0, 0>>] < 0

\* C10: _update() has run exactly once for every _linearize call of the
\* component the store names as its top, never for another component's, and
\* the matrix it assembled holds the blocks as that call left them (after the
\* identity and negation passes).
C10_UpdateOncePerOwnerLinearize ==
    /\ n_update = (IF top_name \in Comps THEN lin_calls[top_name] ELSE 0)
    /\ last_lin = top_name => int_mtx = Jacobian_update(subjacs)
    /\ n_update = 0 => int_mtx = Jacobian_update(NoBlocks)

\* The owner has linearized twice and two other components once each.
C10_Witness ==
    /\ top_name = "simple"
    /\ n_update = 2
    /\ lin_calls["impl"] = 1
    /\ lin_calls["input_comp"] = 1
    /\ impl_kind = "writes"

\* C7: for each vec_name of an ImplicitComponent._apply_linear call exactly one
\* linear operator is applied to the right-hand side: the Jacobian's block
\* operator when the component is the top owner, otherwise the user's
\* apply_linear callback; the Jacobian's product is neither accumulated twice
\* nor added on top of the callback's result.
C7_OneOperatorPerVec ==
    im_last.op = "apply_linear" =>
        \A v \in Names(im_last.vec_names) :
            /\ Len(im_last.applied[v]) = 1
            /\ im_top => im_target[v] = FlAdd(im_last.pre[v], im_jv)
            /\ (~im_top /\ apply_linear_kind = "user") => im_target[v] = im_uv
            /\ (~im_top /\ apply_linear_kind = "default") =>
                   im_target[v] = FlAdd(im_last.pre[v], im_jv)

\* The position of the first unsuccessful solve, 0 when every one succeeds.
FirstFailure(outs) ==
    IF \A i \in DOMAIN outs : Truthy(outs[i]) THEN 0
    ELSE CHOOSE i \in DOMAIN outs :
            /\ ~Truthy(outs[i])
            /\ \A j \in 1 .. i - 1 : Truthy(outs[j])

\* C8: with no linear sub-solver _solve_linear calls the user's solve_linear
\* once per vec_name in list order up to and including the first unsuccessful
\* one, returns failure there and success exactly when every solve succeeded;
\* with a sub-solver it returns that solver's result and never calls the
\* user's solve_linear.
C8_SolveLinearShortCircuit ==
    im_last.op = "solve_linear" =>
        IF solvers_linear = "none"
        THEN LET ff == FirstFailure(im_last.outcomes)
             IN  /\ im_last.invoked = "user"
                 /\ im_last.calls = SubSeq(im_last.vec_names, 1,
                                           IF ff = 0 THEN Len(im_last.vec_names) ELSE ff)
                 /\ im_last.ret = (IF ff = 0 THEN "True" ELSE "False")
        ELSE /\ im_last.invoked = "solver"
             /\ im_last.calls = <<>>
             /\ im_last.ret = im_last.solver_ret

\* A solve over two right-hand sides stopped at the first, which failed.
C8_Witness ==
    /\ im_last.op = "solve_linear"
    /\ solvers_linear = "none"
    /\ Len(im_last.vec_names) = 2
    /\ ~Truthy(im_last.outcomes[1])
    /\ Truthy(im_last.outcomes[2])
    /\ Len(im_last.calls) = 1
    /\ im_last.ret = "False"

\* C9: with a nonlinear sub-solver attached, _solve_nonlinear invokes it and
\* not the user's callback, and returns its convergence outcome: the value
\* returned for a non-converging solve differs from the one returned for a
\* converging solve.
C9_ReportsConvergence ==
    solvers_nonlinear # "none" =>
        /\ im_last.op = "solve_nonlinear" => im_last.invoked = "solver"
        /\ (nl_rets[TRUE] # "unset" /\ nl_rets[FALSE] # "unset")
               => nl_rets[TRUE] # nl_rets[FALSE]

\* C11: whenever the allocator is non-parallel or the communicator has size 1,
\* every process gets isubs = [0, .., nsub-1] in order, the input communicator
\* as sub_comm and proc_range as sub_proc_range, and _divide_procs is not
\* invoked; _divide_procs is invoked only by a parallel allocator on a
\* communicator of size > 1.
C11_SerialFanOut ==
    alloc_last.called =>
        \A rank \in DOMAIN alloc_last.results :
            LET r == alloc_last.results[rank]
            IN  /\ (~parallel \/ alloc_last.comm.size = 1) =>
                       /\ r.ret = "triple"
                       /\ r.isubs = RangeList(alloc_last.nsub)
                       /\ r.sub_comm = alloc_last.comm
                       /\ r.sub_proc_range = alloc_last.proc_range
                       /\ r.divide_calls = 0
                /\ r.divide_calls > 0 => (parallel /\ alloc_last.comm.size > 1)

\* A parallel allocator called with two subsystems on a size-1 communicator.
C11_Witness ==
    /\ alloc_last.called
    /\ parallel
    /\ alloc_last.comm.size = 1
    /\ alloc_last.nsub = 2
    /\ alloc_last.results[0].isubs = <<0, 1>>

\* C12: on the matrix-free path in forward mode, for every pre-call content of
\* d_residuals, the call ends with d_residuals = d_outputs - df/dx * d_inputs
\* and with d_inputs and d_outputs unchanged.
C12_FwdResidual ==
    ~lin_top =>
        \A v \in VecNames :
            applied[v] = "fwd" =>
                /\ d_residuals[v] = VecSub(lin_pre[v].dout,
                                           compute_jacvec_product_fwd(jac_fx, lin_pre[v].di))
                /\ d_inputs[v] = lin_pre[v].di
                /\ d_outputs[v] = lin_pre[v].dout

\* A forward call on a right-hand side whose d_residuals held something else
\* than zero, with a product that does not vanish.
C12_Witness ==
    /\ ~lin_top
    /\ \E v \in VecNames :
        /\ applied[v] = "fwd"
        /\ lin_pre[v].dr["f"] # 0
        /\ compute_jacvec_product_fwd(jac_fx, lin_pre[v].di)["f"] # 0
        /\ d_residuals[v] # lin_pre[v].dr

\* C13 as stated: on the matrix-free path in reverse mode the call ends with
\* d_inputs = -(df/dx)^T * d_residuals and with d_outputs holding the values
\* it held before the call.
C13_RevOutputsKept ==
    ~lin_top =>
        \A v \in VecNames :
            applied[v] = "rev" =>
                /\ d_inputs[v] = VecScale(compute_jacvec_product_rev(jac_fx, lin_pre[v].dr), -1)
                /\ d_outputs[v] = lin_pre[v].dout

\* C13 as amended: on the matrix-free path in reverse mode the call ends with
\* d_inputs = -(df/dx)^T * d_residuals and with d_outputs holding the values
\* d_residuals held before the call (the identity self-block, transposed).
C13_RevOutputsFromResiduals ==
    ~lin_top =>
        \A v \in VecNames :
            applied[v] = "rev" =>
                /\ d_inputs[v] = VecScale(compute_jacvec_product_rev(jac_fx, lin_pre[v].dr), -1)
                /\ d_outputs[v] = lin_pre[v].dr

\* A reverse call on a right-hand side whose d_outputs and d_residuals
\* differed, with a product that does not vanish.
C13_Witness ==
    /\ ~lin_top
    /\ \E v \in VecNames :
        /\ applied[v] = "rev"
        /\ lin_pre[v].dout # lin_pre[v].dr
        /\ \E i \in LinIn : d_inputs[v][i] # 0

SubRanges == {alloc_last.results[rank].sub_proc_range : rank \in DOMAIN alloc_last.results}
Tiles(ranges, proc_range) ==
    /\ \A r \in ranges : proc_range[1] <= r[1] /\ r[1] <= r[2] /\ r[2] <= proc_range[2]
    /\ \A p \in proc_range[1] .. (proc_range[2] - 1) :
           Cardinality({r \in ranges : r[1] <= p /\ p < r[2]}) = 1

\* C15: when a parallel allocator is called on a communicator of more than one
\* process, every subsystem index in [0, nsub) is in the isubs of at least one
\* process and the sub_proc_range intervals tile proc_range without gaps or
\* overlaps.
C15_PartitionCoversAndTiles ==
    (alloc_last.called /\ parallel /\ alloc_last.comm.size > 1) =>
        /\ \A rank \in DOMAIN alloc_last.results : alloc_last.results[rank].ret = "triple"
        /\ \A i \in 0 .. (alloc_last.nsub - 1) :
               \E rank \in DOMAIN alloc_last.results :
                   \E k \in DOMAIN alloc_last.results[rank].isubs :
                       alloc_last.results[rank].isubs[k] = i
        /\ Tiles(SubRanges, alloc_last.proc_range)

\* C16: a variable name occurs at most once among the declared inputs and at
\* most once among the declared outputs.
C16_NamesUnique ==
    \A typ \in Typs :
        \A i, j \in DOMAIN variable_myproc_names[typ] :
            i # j => variable_myproc_names[typ][i] # variable_myproc_names[typ][j]

\* C17: a call with nsub = 0 or an empty proc_range gives every process a
\* triple with isubs = [] and an empty sub_proc_range.
C17_NoLocalWork ==
    (alloc_last.called
       /\ (alloc_last.nsub = 0 \/ alloc_last.proc_range[1] >= alloc_last.proc_range[2])) =>
        \A rank \in DOMAIN alloc_last.results :
            LET r == alloc_last.results[rank]
            IN  /\ r.ret = "triple"
                /\ r.isubs = <<>>
                /\ r.sub_proc_range[1] >= r.sub_proc_range[2]

\* The three lists of a kind are as long as the declarations of that kind, in
\* declaration order, the i-th metadata being the i-th declaration's, and
\* DEFAULTS is as the class statement left it.
RegistryShape ==
    /\ DEFAULTS = DefaultsValue
    /\ \A typ \in Typs :
        /\ Len(variable_allprocs_names[typ]) = Len(decls[typ])
        /\ Len(variable_myproc_names[typ]) = Len(decls[typ])
        /\ Len(variable_myproc_metadata[typ]) = Len(decls[typ])
        /\ \A i \in DOMAIN decls[typ] :
            /\ variable_allprocs_names[typ][i] = decls[typ][i].name
            /\ variable_myproc_names[typ][i] = decls[typ][i].name
            /\ variable_myproc_metadata[typ][i] = MetadataOf(typ, decls[typ][i].kwargs)

\* new is old with one entry appended.
Appended(old, new) == Len(new) = Len(old) + 1 /\ SubSeq(new, 1, Len(old)) = old

\* C18: every declaration appends one entry to each of its kind's three lists,
\* leaves the other kind's lists and all earlier entries unchanged and leaves
\* DEFAULTS unchanged; the three lists of a kind have the same length and are
\* in declaration order, the i-th metadata belonging to the i-th name.
C18_RegistryAppendOnly ==
    [][/\ RegistryShape'
       /\ \E typ \in Typs :
            /\ Appended(variable_allprocs_names[typ], variable_allprocs_names'[typ])
            /\ Appended(variable_myproc_names[typ], variable_myproc_names'[typ])
            /\ Appended(variable_myproc_metadata[typ], variable_myproc_metadata'[typ])
            /\ \A other \in Typs \ {typ} :
                /\ variable_allprocs_names'[other] = variable_allprocs_names[other]
                /\ variable_myproc_names'[other] = variable_myproc_names[other]
                /\ variable_myproc_metadata'[other] = variable_myproc_metadata[other]]_vars

\* Two inputs with different keyword arguments and one output are declared.
C18_Witness ==
    /\ Len(variable_myproc_names["input"]) = 2
    /\ Len(variable_myproc_names["output"]) = 1
    /\ variable_myproc_metadata["input"][1] # variable_myproc_metadata["input"][2]
    /\ variable_myproc_metadata["input"][1]["indices"].kind = "array"
    /\ variable_myproc_metadata["output"][1]["indices"].kind = "list"

\* C19: on the matrix-free path in reverse mode d_residuals holds after the
\* call the values it held before the call, and compute_jacvec_product was
\* given the negated d_residuals.
C19_RevResidualsScratch ==
    ~lin_top =>
        \A v \in VecNames :
            applied[v] = "rev" =>
                /\ d_residuals[v] = lin_pre[v].dr
                /\ cjp_saw[v].called
                /\ cjp_saw[v].arg = VecScale(lin_pre[v].dr, -1)

\* A reverse call on a right-hand side whose d_residuals was not zero.
C19_Witness ==
    /\ ~lin_top
    /\ \E v \in VecNames :
        /\ applied[v] = "rev"
        /\ lin_pre[v].dr["f"] # 0
        /\ cjp_saw[v].arg # lin_pre[v].dr

====
